---- MODULE Spec2Model ----
(***************************************************************************)
(* Model of src/lib.rs: Span<T>, a half-open index range [start, end) into  *)
(* a shared carrier `inner`, with the nom input capabilities implemented    *)
(* on it (InputLength, Slice, InputTake, InputTakeAtPosition, Offset).      *)
(*                                                                         *)
(* The carrier T is modelled as a finite sequence of elements indexed from  *)
(* 0 with unit-width elements (the &[u8] / ASCII &str instance): T's        *)
(* input_len is its length, T's slice(a..b) faults unless a <= b <= length, *)
(* and T's position(p) is the index of the first element satisfying p.      *)
(* A predicate is modelled by the set of elements it holds of.              *)
(* All offsets in the model stay far below usize::MAX, so `+` never wraps;  *)
(* `saturating_sub` is modelled as written.                                 *)
(***************************************************************************)
EXTENDS Integers, Sequences, FiniteSets

\* ---- bounds of the model ----
MaxLen == 3
MaxSteps == 2

MaxIdx == MaxLen + 1
Alphabet == {"a", "b"}
Carriers == UNION {[1..n -> Alphabet] : n \in 0..MaxLen}
Preds == SUBSET Alphabet
ErrorKinds == {"Alpha", "Digit"}
Indices == 0..MaxIdx

VARIABLES inner, cur, s0, takens, path, op, arg, res

vars == <<inner, cur, s0, takens, path, op, arg, res>>

\* ---- carrier (T) capabilities used by Span<T> ----

\* T::input_len
T_input_len(t) == Len(t)

\* T::slice(start..end): Rust slice indexing faults unless start <= end <= len
T_slice(t, start, end) ==
    IF start <= end /\ end <= Len(t)
      THEN [kind |-> "Inner", val |-> SubSeq(t, start + 1, end)]
      ELSE [kind |-> "Panic"]

None == [some |-> FALSE]
Some(n) == [some |-> TRUE, val |-> n]

\* T::position(predicate): index of the first element the predicate holds of
RECURSIVE T_position_from(_, _, _)
T_position_from(t, predicate, i) ==
    IF i >= Len(t) THEN None
    ELSE IF t[i + 1] \in predicate THEN Some(i)
    ELSE T_position_from(t, predicate, i + 1)

T_position(t, predicate) == T_position_from(t, predicate, 0)

\* usize::saturating_sub and usize::min
saturating_sub(a, b) == IF a >= b THEN a - b ELSE 0
usize_min(a, b) == IF a <= b THEN a ELSE b

\* ---- Span<T> ----

new(t, start, end) == [inner |-> t, start |-> start, end |-> end]

Span_end(t) ==
    LET length == T_input_len(t) IN new(t, length, length)

from(t) ==
    LET length == T_input_len(t) IN new(t, 0, length)

as_inner(self) == T_slice(self.inner, self.start, self.end)

\* variant: the declared end is not clamped to the carrier's length
input_len_unclamped(self) == saturating_sub(self.end, self.start)

input_len(self) ==
    saturating_sub(usize_min(self.end, T_input_len(self.inner)), self.start)

\* variant: the range is taken as absolute, self.start is not added
slice_range_absolute(self, range_start, range_end) ==
    new(self.inner, range_start, range_end)

slice_range(self, range_start, range_end) ==
    LET start == self.start + range_start
        end == self.start + range_end
    IN new(self.inner, start, end)

\* variant: the end is shifted along with the start
slice_range_from_shifted(self, range_start) ==
    new(self.inner, self.start + range_start, self.end + range_start)

slice_range_from(self, range_start) ==
    LET start == self.start + range_start
        end == self.end
    IN new(self.inner, start, end)

\* variant: the end is taken as absolute, self.start is not added
slice_range_to_absolute(self, range_end) ==
    new(self.inner, self.start, range_end)

slice_range_to(self, range_end) ==
    LET start == self.start
        end == self.start + range_end
    IN new(self.inner, start, end)

slice_range_full(self) == self

take(self, count) == slice_range_to(self, count)

\* variant: the pair is returned as (taken, remainder)
take_split_swapped(self, count) ==
    <<slice_range_to(self, count), slice_range_from(self, count)>>

take_split(self, count) ==
    <<slice_range_from(self, count), slice_range_to(self, count)>>

\* variant: plain subtraction in place of saturating_sub
offset_unsaturated(self, second) == second.start - self.start

offset(self, second) == saturating_sub(second.start, self.start)

\* ---- IResult ----
Ok(pair) == [kind |-> "Ok", val |-> pair]
Incomplete == [kind |-> "Incomplete", needed |-> 1]
Error(input, e) == [kind |-> "Error", input |-> input, code |-> e]
Panic == [kind |-> "Panic"]

\* variant: no match is answered by taking the whole span
split_at_position_takes_all(self, predicate) ==
    LET m == as_inner(self) IN
    IF m.kind = "Panic" THEN Panic
    ELSE LET p == T_position(m.val, predicate) IN
         IF ~p.some THEN Ok(take_split(self, input_len(self)))
         ELSE Ok(take_split(self, p.val))

split_at_position(self, predicate) ==
    LET m == as_inner(self) IN
    IF m.kind = "Panic" THEN Panic
    ELSE LET p == T_position(m.val, predicate) IN
         IF ~p.some THEN Incomplete
         ELSE Ok(take_split(self, p.val))

\* variant: Incomplete is passed on to the caller
split_at_position_complete_passes(self, predicate) ==
    split_at_position(self, predicate)

split_at_position_complete(self, predicate) ==
    LET r == split_at_position(self, predicate) IN
    IF r.kind = "Incomplete" THEN Ok(take_split(self, input_len(self)))
    ELSE r

split_at_position1(self, predicate, e) ==
    LET m == as_inner(self) IN
    IF m.kind = "Panic" THEN Panic
    ELSE LET p == T_position(m.val, predicate) IN
         IF p.some /\ p.val = 0 THEN Error(self, e)
         ELSE IF p.some THEN Ok(take_split(self, p.val))
         ELSE Incomplete

\* variant: the empty-input check of the no-match arm is left out
split_at_position1_complete_unchecked(self, predicate, e) ==
    LET m == as_inner(self) IN
    IF m.kind = "Panic" THEN Panic
    ELSE LET p == T_position(m.val, predicate) IN
         IF p.some /\ p.val = 0 THEN Error(self, e)
         ELSE IF p.some THEN Ok(take_split(self, p.val))
         ELSE Ok(take_split(self, input_len(self)))

split_at_position1_complete(self, predicate, e) ==
    LET m == as_inner(self) IN
    IF m.kind = "Panic" THEN Panic
    ELSE LET p == T_position(m.val, predicate) IN
         IF p.some /\ p.val = 0 THEN Error(self, e)
         ELSE IF p.some THEN Ok(take_split(self, p.val))
         ELSE IF T_input_len(m.val) = 0 THEN Error(self, e)
         ELSE Ok(take_split(self, input_len(self)))

\* ---- results of the non-IResult calls ----
SpanRes(s) == [kind |-> "Span", val |-> s]
PairRes(p) == [kind |-> "Pair", val |-> p]
UsizeRes(n) == [kind |-> "Usize", val |-> n]
NoArg == [none |-> TRUE]

\* ---- state machine: a caller holding one span over one carrier ----
\* The caller holds `cur`. It makes a call on a span it has just constructed
\* or adopted (Ready); the call returns `res` and leaves `cur` alone (&self).
\* The caller may then adopt what the call returned and go on from it.
\* s0 and takens record the span a run of splits started from and the spans
\* taken since; path records the ranges of a run of slices of from(inner).

Ready == op \in {"new", "from", "end", "continue"}

Init ==
    /\ inner \in Carriers
    /\ cur = from(inner)
    /\ s0 = cur
    /\ takens = <<>>
    /\ path = <<>>
    /\ op = "from"
    /\ arg = NoArg
    /\ res = SpanRes(cur)

\* a constructor call starts afresh from the span it returns
Construct(name, s) ==
    /\ Ready
    /\ cur' = s
    /\ s0' = s
    /\ takens' = <<>>
    /\ path' = <<>>
    /\ op' = name
    /\ arg' = NoArg
    /\ res' = SpanRes(s)
    /\ UNCHANGED inner

\* a call on the current span that only returns a value
Call(name, a, r) ==
    /\ Ready
    /\ op' = name
    /\ arg' = a
    /\ res' = r
    /\ UNCHANGED <<inner, cur, s0, takens, path>>

New == \E start \in Indices, end \in Indices :
    Construct("new", new(inner, start, end))

From == Construct("from", from(inner))

End == Construct("end", Span_end(inner))

AsInner == Call("as_inner", NoArg, as_inner(cur))

InputLen == Call("input_len", NoArg, UsizeRes(input_len(cur)))

SliceRange == \E a \in Indices, b \in Indices :
    Call("slice_range", [start |-> a, end |-> b], SpanRes(slice_range(cur, a, b)))

SliceRangeFrom == \E a \in Indices :
    Call("slice_range_from", [start |-> a], SpanRes(slice_range_from(cur, a)))

SliceRangeTo == \E b \in Indices :
    Call("slice_range_to", [end |-> b], SpanRes(slice_range_to(cur, b)))

SliceRangeFull ==
    Call("slice_range_full", NoArg, SpanRes(slice_range_full(cur)))

Take == \E count \in Indices :
    Call("take", [count |-> count], SpanRes(take(cur, count)))

TakeSplit == \E count \in Indices :
    Call("take_split", [count |-> count], PairRes(take_split(cur, count)))

SplitAtPosition == \E p \in Preds :
    Call("split_at_position", [predicate |-> p], split_at_position(cur, p))

SplitAtPositionComplete == \E p \in Preds :
    Call("split_at_position_complete", [predicate |-> p],
         split_at_position_complete(cur, p))

SplitAtPosition1 == \E p \in Preds, e \in ErrorKinds :
    Call("split_at_position1", [predicate |-> p, e |-> e],
         split_at_position1(cur, p, e))

SplitAtPosition1Complete == \E p \in Preds, e \in ErrorKinds :
    Call("split_at_position1_complete", [predicate |-> p, e |-> e],
         split_at_position1_complete(cur, p, e))

\* cur.offset(second) for a span second over the carrier, empty or to its end
Offset == \E start \in Indices : \E end \in {start, T_input_len(inner)} :
    LET second == new(inner, start, end) IN
    Call("offset", [second |-> second, prev_count |-> -1],
         UsizeRes(offset(cur, second)))

\* cur.offset(remainder) for the remainder cur.take_split(count) just returned;
\* prev_count keeps that call's count
OffsetRemainder ==
    /\ op = "take_split"
    /\ op' = "offset"
    /\ arg' = [second |-> res.val[1], prev_count |-> arg.count]
    /\ res' = UsizeRes(offset(cur, res.val[1]))
    /\ UNCHANGED <<inner, cur, s0, takens, path>>

\* the caller goes on parsing from the remainder of the split just made,
\* keeping the taken span (as nom's pair() does with its first parser's result)
ContinueRemainder ==
    /\ res.kind \in {"Pair", "Ok"}
    /\ op = "take_split" => arg.count <= input_len(cur)
    /\ Len(takens) < MaxSteps
    /\ cur' = res.val[1]
    /\ takens' = Append(takens, res.val[2])
    /\ path' = <<>>
    /\ op' = "continue"
    /\ arg' = NoArg
    /\ res' = SpanRes(res.val[1])
    /\ UNCHANGED <<inner, s0>>

\* the caller slices the span a slice call returned, starting from the whole
\* carrier: from(inner).slice(a..b).slice(c..d), each range within its span
ContinueSlice ==
    /\ op = "slice_range"
    /\ arg.start <= arg.end /\ arg.end <= input_len(cur)
    /\ path = <<>> => cur = from(inner)
    /\ Len(path) < 2
    /\ cur' = res.val
    /\ s0' = res.val
    /\ takens' = <<>>
    /\ path' = Append(path, <<arg.start, arg.end>>)
    /\ op' = "continue"
    /\ arg' = NoArg
    /\ res' = SpanRes(res.val)
    /\ UNCHANGED inner

Next ==
    \/ New
    \/ From
    \/ End
    \/ AsInner
    \/ InputLen
    \/ SliceRange
    \/ SliceRangeFrom
    \/ SliceRangeTo
    \/ SliceRangeFull
    \/ Take
    \/ TakeSplit
    \/ SplitAtPosition
    \/ SplitAtPositionComplete
    \/ SplitAtPosition1
    \/ SplitAtPosition1Complete
    \/ Offset
    \/ OffsetRemainder
    \/ ContinueRemainder
    \/ ContinueSlice

Spec == Init /\ [][Next]_vars

\* ---- what the claims speak of, stated independently of the operations ----

Max0(x) == IF x >= 0 THEN x ELSE 0
Min2(x, y) == IF x <= y THEN x ELSE y

\* a span lying within its carrier: 0 <= start <= end <= length(carrier)
InCarrier(s) == 0 <= s.start /\ s.start <= s.end /\ s.end <= Len(s.inner)

\* the carrier's elements in [start, min(end, length))
Content(s) ==
    [i \in 1..Max0(Min2(s.end, Len(s.inner)) - s.start) |-> s.inner[s.start + i]]

\* relative indices of the content at which the predicate holds
Hits(s, predicate) == {i \in 0..(Len(Content(s)) - 1) : Content(s)[i + 1] \in predicate}

FirstHit(s, predicate) ==
    CHOOSE i \in Hits(s, predicate) : \A j \in Hits(s, predicate) : i <= j

\* the pair (remainder, taken) of splitting s after n elements
SplitAt(s, n) ==
    << [inner |-> s.inner, start |-> s.start + n, end |-> s.end],
       [inner |-> s.inner, start |-> s.start, end |-> s.start + n] >>

SpanLen(s) == s.end - s.start

\* C1: for every span and every n <= its length(), take_split(n) returns
\* (remainder, taken) in that order with taken.start = original.start,
\* remainder.start = taken.end, remainder.end = original.end, both over the
\* original's carrier, and the original span is left as it was.
C1_TakeSplit ==
    [][ (op' = "take_split" /\ arg'.count <= input_len(cur)) =>
          LET remainder == res'.val[1]
              taken == res'.val[2]
          IN /\ res'.kind = "Pair"
             /\ taken.start = cur.start
             /\ taken.end = cur.start + arg'.count
             /\ remainder.start = taken.end
             /\ remainder.end = cur.end
             /\ remainder.inner = cur.inner
             /\ taken.inner = cur.inner
             /\ cur' = cur ]_vars

C1_Witness ==
    /\ op = "take_split"
    /\ arg.count > 0
    /\ arg.count < input_len(cur)
    /\ cur.start > 0

\* C2: on a span within its carrier, streaming split_at_position returns
\* Ok(take_split(n)) for the first relative index n at which the predicate
\* holds, and returns Incomplete (never Error) exactly when the predicate
\* holds at no element of the content, the empty span included.
C2_SplitAtPosition ==
    (op = "split_at_position" /\ InCarrier(cur)) =>
        /\ res.kind \in {"Ok", "Incomplete"}
        /\ res.kind = "Incomplete" <=> Hits(cur, arg.predicate) = {}
        /\ Hits(cur, arg.predicate) # {} =>
             res = [kind |-> "Ok", val |-> SplitAt(cur, FirstHit(cur, arg.predicate))]

C2_Witness ==
    /\ op = "split_at_position"
    /\ InCarrier(cur)
    /\ cur.start > 0
    /\ res.kind = "Ok"
    /\ SpanLen(res.val[2]) > 0
    /\ SpanLen(res.val[1]) > 0

\* C3: on a span within its carrier, split_at_position_complete never
\* returns Incomplete: it returns Ok(take_split(n)) at the first match n, and
\* with no match it succeeds taking the whole span, the remainder being the
\* zero-length span at the original end.
C3_SplitAtPositionComplete ==
    (op = "split_at_position_complete" /\ InCarrier(cur)) =>
        /\ res.kind = "Ok"
        /\ Hits(cur, arg.predicate) # {} =>
             res.val = SplitAt(cur, FirstHit(cur, arg.predicate))
        /\ Hits(cur, arg.predicate) = {} =>
             /\ res.val[2] = [inner |-> cur.inner, start |-> cur.start, end |-> cur.end]
             /\ res.val[1] = [inner |-> cur.inner, start |-> cur.end, end |-> cur.end]

C3_Witness ==
    /\ op = "split_at_position_complete"
    /\ InCarrier(cur)
    /\ SpanLen(cur) > 1
    /\ cur.start > 0
    /\ Hits(cur, arg.predicate) = {}
    /\ res.kind = "Ok"

\* C4: on a span within its carrier, the one-or-more variants never succeed
\* with a zero-length taken span: a first match at index 0 is Error with the
\* caller's error kind and the original span; split_at_position1_complete on
\* a zero-length span is that Error; with no match split_at_position1 is
\* Incomplete and split_at_position1_complete on a non-empty span takes the
\* whole span; every success takes at least one element.
C4_OneOrMore ==
    (op \in {"split_at_position1", "split_at_position1_complete"} /\ InCarrier(cur)) =>
        LET hits == Hits(cur, arg.predicate)
            err == [kind |-> "Error", input |-> cur, code |-> arg.e]
        IN /\ res.kind \in {"Ok", "Incomplete", "Error"}
           /\ 0 \in hits => res = err
           /\ (hits # {} /\ 0 \notin hits) =>
                res = [kind |-> "Ok", val |-> SplitAt(cur, FirstHit(cur, arg.predicate))]
           /\ (op = "split_at_position1_complete" /\ SpanLen(cur) = 0) => res = err
           /\ (op = "split_at_position1_complete" /\ SpanLen(cur) > 0 /\ hits = {}) =>
                res = [kind |-> "Ok", val |-> SplitAt(cur, SpanLen(cur))]
           /\ (op = "split_at_position1" /\ hits = {}) => res.kind = "Incomplete"
           /\ res.kind = "Ok" => SpanLen(res.val[2]) >= 1

C4_Witness ==
    /\ op = "split_at_position1_complete"
    /\ InCarrier(cur)
    /\ SpanLen(cur) = 0
    /\ cur.start > 0
    /\ res.kind = "Error"
    /\ res.code = "Digit"

\* C5: as_inner returns the carrier's elements in [start, min(end, length))
\* for every span, also one whose end exceeds the carrier's length.
C5_AsInnerClamps ==
    op = "as_inner" => res = [kind |-> "Inner", val |-> Content(cur)]

\* C6: new(C, start, end).length() = max(0, min(end, length(C)) - start);
\* from(C) is [0, length(C)) with length() = length(C); end(C) has
\* start = end = length(C) and length() = 0.
C6_InputLen ==
    /\ op = "input_len" =>
         /\ res.val = Max0(Min2(cur.end, Len(cur.inner)) - cur.start)
         /\ cur = from(inner) => res.val = Len(inner)
         /\ cur = Span_end(inner) => res.val = 0
    /\ op = "from" => cur = [inner |-> inner, start |-> 0, end |-> Len(inner)]
    /\ op = "end" => cur = [inner |-> inner, start |-> Len(inner), end |-> Len(inner)]

C6_Witness ==
    /\ op = "input_len"
    /\ cur.end > Len(cur.inner)
    /\ cur.start < Len(cur.inner)
    /\ cur.start > 0
    /\ res.val = Len(cur.inner) - cur.start

\* C7: slicing [start, end) by the relative range a..b gives [start+a, start+b),
\* by a.. gives [start+a, end), by ..b gives [start, start+b), by .. gives the
\* span itself; and from(C).slice(a..b).slice(c..d) = from(C).slice(a+c..a+d)
\* for a <= b <= length(C), c <= d <= b - a.
C7_Slicing ==
    /\ op = "slice_range" =>
         res.val = [inner |-> cur.inner, start |-> cur.start + arg.start,
                    end |-> cur.start + arg.end]
    /\ op = "slice_range_from" =>
         res.val = [inner |-> cur.inner, start |-> cur.start + arg.start, end |-> cur.end]
    /\ op = "slice_range_to" =>
         res.val = [inner |-> cur.inner, start |-> cur.start, end |-> cur.start + arg.end]
    /\ op = "slice_range_full" => res.val = cur
    /\ Len(path) = 2 =>
         cur = [inner |-> inner, start |-> path[1][1] + path[2][1],
                end |-> path[1][1] + path[2][2]]

C7_Witness ==
    /\ Len(path) = 2
    /\ path[1][1] > 0
    /\ path[2][1] > 0
    /\ path[2][2] > path[2][1]
    /\ path[1][2] >= path[1][1] + path[2][2]

\* C8: a.offset(b) = max(0, b.start - a.start) whatever the two ends are, and
\* s.offset(remainder) = n for (remainder, taken) = s.take_split(n), n <= s.length().
C8_Offset ==
    op = "offset" =>
        /\ res.val = Max0(arg.second.start - cur.start)
        /\ (arg.prev_count >= 0 /\ arg.prev_count <= input_len(cur)) =>
             res.val = arg.prev_count

C8_Witness ==
    /\ op = "offset"
    /\ arg.second.start < cur.start
    /\ arg.second.end # cur.end
    /\ res.val = 0

\* the spans the call just made produced, when its precondition n <= length() held
Produced ==
    CASE op = "take" /\ arg.count <= input_len(cur) -> {res.val}
      [] op = "take_split" /\ arg.count <= input_len(cur) -> {res.val[1], res.val[2]}
      [] res.kind = "Ok" -> {res.val[1], res.val[2]}
      [] OTHER -> {}

\* C9: starting from from(C), every span produced by take/take_split with
\* n <= length() and by successful split_at_position* calls, along any run
\* of them, satisfies 0 <= start <= end <= length(C) and is over C.
C9_Bounds ==
    s0 = from(inner) =>
        \A s \in {cur} \cup {takens[i] : i \in 1..Len(takens)} \cup Produced :
            InCarrier(s) /\ s.inner = inner

C9_Witness ==
    /\ s0 = from(inner)
    /\ Len(takens) = 2
    /\ SpanLen(takens[1]) > 0
    /\ SpanLen(takens[2]) > 0
    /\ res.kind = "Ok"
    /\ SpanLen(res.val[2]) > 0

RECURSIVE Materialized(_)
Materialized(spans) ==
    IF spans = <<>> THEN <<>>
    ELSE as_inner(Head(spans)).val \o Materialized(Tail(spans))

\* C10: from a span s0 within its carrier, after any number of splits the
\* taken spans are contiguous from s0.start, the remainder starts where the
\* last taken span ends and ends at s0.end, and the contents of the taken
\* spans followed by the remainder's content are the content of s0.
C10_Conservation ==
    InCarrier(s0) =>
        LET all == Append(takens, cur) IN
        /\ all[1].start = s0.start
        /\ \A i \in 1..Len(takens) : all[i + 1].start = all[i].end
        /\ cur.end = s0.end
        /\ \A i \in 1..Len(all) : as_inner(all[i]).kind = "Inner"
        /\ as_inner(s0).kind = "Inner"
        /\ Materialized(all) = as_inner(s0).val

C10_Witness ==
    /\ InCarrier(s0)
    /\ Len(takens) = 2
    /\ SpanLen(takens[1]) > 0
    /\ SpanLen(takens[2]) > 0
    /\ SpanLen(cur) > 0

====
